---- MODULE Spec2Model ----
(***************************************************************************)
(* gopcan: a Go binding of the PCAN-Basic driver library.                  *)
(*                                                                         *)
(* The model follows the Windows build of package pcan: the process-wide   *)
(* loader state (src/pcan/types.go), the bus facade (the package part of   *)
(* src/examples/cli.go) and, as the environment, the native driver and the *)
(* wall clock.  A nil *syscall.Proc (or *syscall.DLL) whose method is      *)
(* called makes the Go runtime panic with a nil pointer dereference: an    *)
(* operation that does so completes with panic = TRUE and returns nothing. *)
(***************************************************************************)
EXTENDS Integers, Sequences, FiniteSets, TLC

(***************************** bounds **************************************)
MaxModules == 2     \* module references the process may hold at once
MaxQueue   == 1     \* frames the driver queues
MaxReads   == 2     \* native reads of one ReadWithTimeout call
MaxDrain   == 2     \* native reads of one ReadFullBuffer call
MaxTicks   == 1     \* single-millisecond advances of the clock
MaxJumps   == 1     \* long advances of the clock
MaxBurst   == 3     \* frames that arrive together

MaxClock   == 3     \* latest clock value (ms) at which a watched call begins
MaxLoaders == 2     \* goroutines that call LoadAPI concurrently

(************************** program constants ******************************)
\* syscall.ERROR_INSUFFICIENT_BUFFER, the platform code syscallErr suppresses
ERROR_INSUFFICIENT_BUFFER == 122
\* length of the fixed string buffers of the driver interface; declared with
\* the package's other constants, used by StartTrace
MAX_LENGHT_STRING_BUFFER == 256
\* "max is 100 MB"
MAX_TRACE_FILE_SIZE_ACCEPTED == 100

PCAN_ERROR_OK        == "PCAN_ERROR_OK"
PCAN_ERROR_QRCVEMPTY == "PCAN_ERROR_QRCVEMPTY"
PCAN_ERROR_BUSOFF    == "PCAN_ERROR_BUSOFF"
PCAN_ERROR_UNKNOWN   == "PCAN_ERROR_UNKNOWN"

\* the statuses a native call can return
Statuses == {PCAN_ERROR_OK, PCAN_ERROR_QRCVEMPTY, PCAN_ERROR_BUSOFF}
\* the platform error codes (GetLastError) that come back with a native call
Errnos == {0, ERROR_INSUFFICIENT_BUFFER, 5}

\* the 14 entry points LoadAPI resolves
ProcNames ==
    {"CAN_Initialize", "CAN_InitializeFD", "CAN_Uninitialize", "CAN_Reset",
     "CAN_GetStatus", "CAN_Read", "CAN_ReadFD", "CAN_Write", "CAN_WriteFD",
     "CAN_FilterMessages", "CAN_GetValue", "CAN_SetValue", "CAN_GetErrorText",
     "CAN_LookUpChannel"}

Handles   == {"PCAN_USBBUS1", "PCAN_USBBUS2"}
Baudrates == {"PCAN_BAUD_500K", "PCAN_BAUD_250K"}
\* the channels a caller opens: a handle and the baud rate of its bus
Channels  == {<<"PCAN_USBBUS1", "PCAN_BAUD_500K">>, <<"PCAN_USBBUS2", "PCAN_BAUD_250K">>}

PCAN_DEFAULT_HW_TYPE   == "PCAN_DEFAULT_HW_TYPE"
PCAN_DEFAULT_IO_PORT   == "PCAN_DEFAULT_IO_PORT"
PCAN_DEFAULT_INTERRUPT == "PCAN_DEFAULT_INTERRUPT"

(***************************** pointers ************************************)
\* a Go pointer is nil (the empty tuple) or points to one value
NIL      == << >>
Ptr(x)   == << x >>
Deref(p) == p[1]

(****************************** errors *************************************)
NoErr           == [kind |-> "nil",   code |-> 0]
ErrnoErr(e)     == [kind |-> "errno", code |-> e]
LocalErr(what)  == [kind |-> what,    code |-> 0]

\* a translation that reports the insufficient-buffer code like any other
syscallErr_NoSuppress(errno) ==
    IF errno # 0 THEN ErrnoErr(errno) ELSE NoErr

\* helper function to handle syscall return value
syscallErr(errno) ==
    IF errno # 0
    THEN IF errno = ERROR_INSUFFICIENT_BUFFER THEN NoErr ELSE ErrnoErr(errno)
    ELSE NoErr

(**************************** frames ***************************************)
Zeros8 == <<0, 0, 0, 0, 0, 0, 0, 0>>
\* the zero value of TPCANMsg / TPCANTimestamp (a declared, unwritten variable)
ZeroMsg == [ID |-> 0, MsgType |-> "PCAN_MESSAGE_STANDARD", DLC |-> 0, Data |-> Zeros8]
ZeroTimestamp == [Millis |-> 0, MillisOverflow |-> 0, Micros |-> 0]
\* the two frames of the example program
Frame123 == [ID |-> 291, MsgType |-> "PCAN_MESSAGE_STANDARD", DLC |-> 8,
             Data |-> <<1, 2, 3, 4, 5, 6, 7, 8>>]
Frame12345 == [ID |-> 74565, MsgType |-> "PCAN_MESSAGE_EXTENDED", DLC |-> 8,
               Data |-> <<1, 2, 3, 4, 5, 6, 7, 8>>]
Frames == {Frame123, Frame12345}
\* the receive time the driver hands out with frame f
StampOf(f) ==
    IF f = ZeroMsg THEN ZeroTimestamp
    ELSE [Millis |-> f.ID, MillisOverflow |-> 0, Micros |-> 0]

(************************ 64-bit millisecond clock *************************)
\* An int64 count of milliseconds is kept as <<high, low>> with
\* value = high * 2^16 + low, 0 <= low < 2^16.
Base == 2^16
Norm64(h, l) == <<h + (l \div Base), l % Base>>
Ms(t) == Norm64(0, t)
Add64(a, b) == Norm64(a[1] + b[1], a[2] + b[2])
Gt64(a, b) == a[1] > b[1] \/ (a[1] = b[1] /\ a[2] > b[2])
\* syscall.INFINITE = 0xFFFFFFFF
INFINITE == <<Base - 1, Base - 1>>

VARIABLES
    apiLoaded,      \* the api was loaded already
    hasEvents,      \* receive events are available
    pcanAPIHandle,  \* *syscall.DLL: "nil", "loaded" or "released"
    pHandle,        \* per entry point: TRUE when its *syscall.Proc is non-nil
    modules,        \* references to the driver module the process holds
    bus,            \* the caller's *TPCANBus
    initialized,    \* driver: the channels that are initialised
    rxQueue,        \* driver: the receive queue of the caller's channel
    now,            \* wall clock, milliseconds
    ticks,          \* advances of the clock so far: <<single, long>>
    pc,             \* where the caller is: "idle" or inside a polling loop
    loc,            \* the locals of the running ReadWithTimeout / ReadFullBuffer
    ret,            \* what the most recent operation returned
    loaders         \* per goroutine inside LoadAPI: the statement it is at

vars == <<apiLoaded, hasEvents, pcanAPIHandle, pHandle, modules, bus,
          initialized, rxQueue, now, ticks, pc, loc, ret, loaders>>

apiVars == <<apiLoaded, pcanAPIHandle, pHandle, modules>>
driverVars == <<initialized, rxQueue>>
clockVars == <<now, ticks>>

(************************* results of operations ***************************)
\* a native call as the operation saw it
NoCall == [proc |-> "", param |-> "", cfg |-> {}, status |-> "", errno |-> 0,
           loaded |-> FALSE]
Call(proc, param, cfg, status, errno, loaded) ==
    [proc |-> proc, param |-> param, cfg |-> cfg, status |-> status,
     errno |-> errno, loaded |-> loaded]

\* op: the running call; arg: its argument; reads: native reads made so far;
\* last: the latest of them; r: what Read returned for it; startTime: the
\* clock when the call began
NoRead == [status |-> "", msg |-> NIL, timestamp |-> NIL, err |-> NoErr]
NoLoc == [op |-> "", arg |-> 0, startTime |-> Ms(0), endTime |-> Ms(0),
          timeoutU32 |-> Ms(0), reads |-> 0, last |-> NoCall, r |-> NoRead,
          msgs |-> << >>, timestamps |-> << >>]

\* op: the operation; panic: it ended in a nil pointer dereference and
\* returned nothing; arg, arg2: its arguments; calls: the native calls it made
\* (of a polling loop only the latest read, reads counting them all); dll: the
\* library handle when it made them
NoRet == [op |-> "", panic |-> FALSE, status |-> "", err |-> NoErr,
          msg |-> NIL, timestamp |-> NIL, bus |-> NIL,
          msgs |-> << >>, timestamps |-> << >>,
          calls |-> << >>, reads |-> 0, arg |-> 0, arg2 |-> 0, dll |-> "nil"]

Panic(op, calls) == [NoRet EXCEPT !.op = op, !.panic = TRUE, !.calls = calls,
                                  !.dll = pcanAPIHandle]
Return(op, status, err, calls) ==
    [NoRet EXCEPT !.op = op, !.status = status, !.err = err, !.calls = calls,
                  !.dll = pcanAPIHandle]

\* the goroutines that call LoadAPI at the same time
Goroutines == 1..MaxLoaders

Init ==
    /\ apiLoaded = FALSE
    /\ hasEvents = FALSE
    /\ pcanAPIHandle = "nil"
    /\ pHandle = [p \in ProcNames |-> FALSE]
    /\ modules = 0
    /\ bus = NIL
    /\ initialized = {}
    /\ rxQueue = << >>
    /\ now = Ms(0)
    /\ ticks = <<0, 0>>
    /\ pc = "idle"
    /\ loc = NoLoc
    /\ ret = NoRet
    /\ loaders = [g \in Goroutines |-> "out"]

(******************************* loader ************************************)
\* the entry points a driver module found under the library's name may lack:
\* none; the channel look-up of recent driver versions; all of them
MissingSets == {{}, {"CAN_LookUpChannel"}, ProcNames}

\* what the platform answers to one LoadAPI: whether LoadDLL finds the module,
\* and the entry points FindProc does not find in it
\* (a loaded library asks the platform nothing; a module not found has no
\* entry points to look up)
LoadAnswers ==
    IF apiLoaded THEN {[dllOk |-> TRUE, missing |-> {}]}
    ELSE {[dllOk |-> FALSE, missing |-> ProcNames]}
         \cup {[dllOk |-> TRUE, missing |-> m] : m \in MissingSets}

\* a flag that is set although the channel look-up is unresolved
AllResolved_ButLookUp(ph) == \A p \in ProcNames \ {"CAN_LookUpChannel"} : ph[p]

AllResolved(ph) == \A p \in ProcNames : ph[p]

\* a LoadAPI that loads the module and resolves the entry points on every call
LoadAPIStep_Reload(a) ==
    IF ~a.dllOk
    THEN [apiLoaded |-> FALSE, pcanAPIHandle |-> "nil",
          pHandle |-> pHandle, modules |-> modules,
          err |-> LocalErr("linkage"), loads |-> 0]
    ELSE LET ph == [p \in ProcNames |-> p \notin a.missing]
         IN [apiLoaded |-> AllResolved(ph), pcanAPIHandle |-> "loaded",
             pHandle |-> ph, modules |-> modules + 1,
             err |-> IF AllResolved(ph) THEN NoErr ELSE LocalErr("linkage"),
             loads |-> 1]

\* LoadAPI on the platform answer a: the new process-wide state, the error
\* returned and the number of modules loaded by the call
LoadAPIStep(a) ==
    IF apiLoaded
    THEN [apiLoaded |-> apiLoaded, pcanAPIHandle |-> pcanAPIHandle,
          pHandle |-> pHandle, modules |-> modules, err |-> NoErr, loads |-> 0]
    ELSE IF ~a.dllOk
    THEN \* pcanAPIHandle, err = syscall.LoadDLL(...): both results are assigned
         [apiLoaded |-> FALSE, pcanAPIHandle |-> "nil",
          pHandle |-> pHandle, modules |-> modules,
          err |-> LocalErr("linkage"), loads |-> 0]
    ELSE LET ph == [p \in ProcNames |-> p \notin a.missing]
         IN [apiLoaded |-> AllResolved(ph), pcanAPIHandle |-> "loaded",
             pHandle |-> ph, modules |-> modules + 1,
             err |-> IF AllResolved(ph) THEN NoErr ELSE LocalErr("linkage"),
             loads |-> 1]

\* the platform can answer a to a LoadAPI made now
CanAnswer(a) == a.dllOk /\ ~apiLoaded => modules < MaxModules

SetAPI(l) ==
    /\ apiLoaded' = l.apiLoaded
    /\ pcanAPIHandle' = l.pcanAPIHandle
    /\ pHandle' = l.pHandle
    /\ modules' = l.modules

LoadAPI ==
    /\ pc = "idle"
    /\ \E a \in LoadAnswers :
        /\ CanAnswer(a)
        /\ LET l == LoadAPIStep(a) IN
            /\ SetAPI(l)
            /\ ret' = [Return("LoadAPI", "", l.err, << >>) EXCEPT
                          !.dll = l.pcanAPIHandle, !.arg = l.loads]
    /\ UNCHANGED <<hasEvents, bus, driverVars, clockVars, pc, loc, loaders>>

\* Unloads PCAN API: the references are reset, then the module is released.
\* Release on a nil *syscall.DLL dereferences it; FreeLibrary succeeds while
\* the process still holds a reference to the module.
UnloadAPI ==
    /\ pc = "idle"
    /\ pHandle' = [p \in ProcNames |-> FALSE]
    /\ apiLoaded' = FALSE
    /\ IF pcanAPIHandle = "nil"
       THEN /\ ret' = Panic("UnloadAPI", << >>)
            /\ UNCHANGED <<pcanAPIHandle, modules>>
       ELSE IF modules > 0
       THEN /\ pcanAPIHandle' = "released"
            /\ modules' = modules - 1
            /\ ret' = [Return("UnloadAPI", "", NoErr, << >>) EXCEPT !.dll = "released"]
       ELSE /\ pcanAPIHandle' = "released"
            /\ modules' = modules
            /\ ret' = [Return("UnloadAPI", "", LocalErr("release"), << >>)
                          EXCEPT !.dll = "released"]
    /\ UNCHANGED <<hasEvents, bus, driverVars, clockVars, pc, loc, loaders>>

(************************ LoadAPI, statement by statement *******************)
\* LoadAPI holds no lock: goroutines that call it at the same time interleave
\* at its statements.  The module found here has all 14 entry points.

\* the rest of the state, which a step of LoadAPI leaves alone
callerVars == <<hasEvents, bus, initialized, rxQueue, now, ticks, pc, loc>>

At(g, where) == loaders' = [loaders EXCEPT ![g] = where]

\* if apiLoaded { return nil }
LoadAPI_Check(g) ==
    /\ loaders[g] = "out"
    /\ IF apiLoaded
       THEN /\ ret' = [Return("LoadAPI", "", NoErr, << >>) EXCEPT !.arg = 0]
            /\ UNCHANGED loaders
       ELSE /\ At(g, "LoadDLL")
            /\ UNCHANGED ret
    /\ UNCHANGED <<apiVars, callerVars>>

\* pcanAPIHandle, err = syscall.LoadDLL("PCANBasic.dll")
LoadAPI_LoadDLL(g) ==
    /\ loaders[g] = "LoadDLL"
    /\ \E dllOk \in BOOLEAN :
        IF dllOk
        THEN /\ modules < MaxModules
             /\ pcanAPIHandle' = "loaded"
             /\ modules' = modules + 1
             /\ At(g, "FindProc")
             /\ UNCHANGED ret
        ELSE /\ pcanAPIHandle' = "nil"
             /\ ret' = [Return("LoadAPI", "", LocalErr("linkage"), << >>)
                           EXCEPT !.dll = "nil"]
             /\ At(g, "out")
             /\ UNCHANGED modules
    /\ UNCHANGED <<apiLoaded, pHandle, callerVars>>

\* pHandleInitialize, _ = pcanAPIHandle.FindProc("CAN_Initialize") and the
\* thirteen assignments after it
LoadAPI_FindProcs(g) ==
    /\ loaders[g] = "FindProc"
    /\ pHandle' = [p \in ProcNames |-> TRUE]
    /\ At(g, "apiLoaded")
    /\ UNCHANGED <<apiLoaded, pcanAPIHandle, modules, ret, callerVars>>

\* apiLoaded = pHandleInitialize != nil && ... and the return
LoadAPI_SetFlag(g) ==
    /\ loaders[g] = "apiLoaded"
    /\ apiLoaded' = AllResolved(pHandle)
    /\ ret' = [Return("LoadAPI", "",
                      IF AllResolved(pHandle) THEN NoErr ELSE LocalErr("linkage"),
                      << >>) EXCEPT !.arg = 1]
    /\ At(g, "out")
    /\ UNCHANGED <<pcanAPIHandle, pHandle, modules, callerVars>>

\* one goroutine takes its next step in LoadAPI
LoadAPI_Step ==
    \E g \in Goroutines :
        \/ LoadAPI_Check(g)
        \/ LoadAPI_LoadDLL(g)
        \/ LoadAPI_FindProcs(g)
        \/ LoadAPI_SetFlag(g)

(************************** the native driver ******************************)
\* what a native call other than a read answers: a status and a platform code
NativeAnswers == [status : Statuses \ {PCAN_ERROR_QRCVEMPTY}, errno : Errnos]

\* what CAN_Read answers now: the oldest queued frame, or queue-empty when
\* none is queued, or a failure; the output structures stay zero unless a
\* frame is delivered
DriverReads ==
    {[status |-> PCAN_ERROR_BUSOFF, msg |-> ZeroMsg, timestamp |-> ZeroTimestamp,
      errno |-> e, pop |-> FALSE] : e \in Errnos}
    \cup
    (IF rxQueue # << >>
     THEN {[status |-> PCAN_ERROR_OK, msg |-> Head(rxQueue).msg,
            timestamp |-> Head(rxQueue).timestamp, errno |-> e, pop |-> TRUE]
           : e \in Errnos}
     ELSE {[status |-> PCAN_ERROR_QRCVEMPTY, msg |-> ZeroMsg,
            timestamp |-> ZeroTimestamp, errno |-> e, pop |-> FALSE]
           : e \in Errnos})

AfterRead(n) == IF n.pop THEN Tail(rxQueue) ELSE rxQueue

ChannelOpen == bus # NIL /\ Deref(bus).Handle \in initialized

Queued(f) == [msg |-> f, timestamp |-> StampOf(f)]

\* a frame arrives on the caller's channel
FrameArrives ==
    /\ ChannelOpen
    /\ Len(rxQueue) < MaxQueue
    /\ \E f \in Frames : rxQueue' = Append(rxQueue, Queued(f))
    /\ UNCHANGED <<apiVars, hasEvents, bus, initialized, clockVars, pc, loc, ret, loaders>>

\* the bursts of frames a peer sends
Bursts == UNION {[1..n -> Frames] : n \in 2..MaxBurst}

\* a burst of frames arrives on the caller's idle channel while no call runs
BurstArrives ==
    /\ ChannelOpen
    /\ pc = "idle"
    /\ rxQueue = << >>
    /\ \E b \in Bursts : rxQueue' = [i \in 1..Len(b) |-> Queued(b[i])]
    /\ UNCHANGED <<apiVars, hasEvents, bus, initialized, clockVars, pc, loc, ret, loaders>>

(****************************** the clock **********************************)
\* Only the time that passes inside a polling call is observed by the program.

\* the clock advances by one millisecond
Tick ==
    /\ pc # "idle"
    /\ ticks[1] < MaxTicks
    /\ now' = Add64(now, Ms(1))
    /\ ticks' = <<ticks[1] + 1, ticks[2]>>
    /\ UNCHANGED <<apiVars, hasEvents, bus, driverVars, pc, loc, ret, loaders>>

\* the clock advances by 2^32 - 1 milliseconds
Jump ==
    /\ pc # "idle"
    /\ ticks[2] < MaxJumps
    /\ now' = Add64(now, INFINITE)
    /\ ticks' = <<ticks[1], ticks[2] + 1>>
    /\ UNCHANGED <<apiVars, hasEvents, bus, driverVars, pc, loc, ret, loaders>>

(*************************** channel open/close ****************************)
\* what creating and registering the receive event answers
EventAnswers ==
    IF hasEvents THEN [created : BOOLEAN, setOk : BOOLEAN]
    ELSE {[created |-> FALSE, setOk |-> FALSE]}

\* an initialisation that creates and registers the event whatever the flag
initializeRecvEvent_EventsAvailable(ev) == [recvEvent |-> 1, hasEvents |-> TRUE]

\* prepare WaitForSingleObject implementation: the handle's recvEvent and
\* the new value of hasEvents
initializeRecvEvent(ev) ==
    IF ~hasEvents THEN [recvEvent |-> 0, hasEvents |-> hasEvents]
    ELSE IF ev.created /\ ev.setOk THEN [recvEvent |-> 1, hasEvents |-> TRUE]
    ELSE [recvEvent |-> 0, hasEvents |-> FALSE]

\* an initialize that hands out a bus handle whenever the status is OK
InitializeWith_IgnoresError(op, handle, baudRate, hwType, ioPort, interrupt) ==
    /\ pc = "idle"
    /\ \E a \in LoadAnswers, n \in NativeAnswers, ev \in EventAnswers :
        /\ CanAnswer(a)
        /\ LET l == LoadAPIStep(a)
               err == syscallErr(n.errno)
               c == Call("CAN_Initialize", "", {}, n.status, n.errno, l.apiLoaded)
               e == initializeRecvEvent(ev)
               b == [Handle |-> handle, Baudrate |-> baudRate, HWType |-> hwType,
                     IOPort |-> ioPort, Interrupt |-> interrupt,
                     recvEvent |-> e.recvEvent]
           IN
            /\ SetAPI(l)
            /\ IF ~l.pHandle["CAN_Initialize"]
               THEN /\ ret' = [Panic(op, << >>) EXCEPT !.dll = l.pcanAPIHandle,
                                                      !.arg = handle, !.arg2 = baudRate]
                    /\ UNCHANGED <<hasEvents, bus, initialized, rxQueue>>
               ELSE /\ initialized' = IF n.status = PCAN_ERROR_OK
                                      THEN initialized \cup {handle} ELSE initialized
                    /\ IF n.status # PCAN_ERROR_OK
                       THEN /\ ret' = [Return(op, n.status, err, <<c>>)
                                          EXCEPT !.dll = l.pcanAPIHandle,
                                                 !.arg = handle, !.arg2 = baudRate]
                            /\ UNCHANGED <<hasEvents, bus, rxQueue>>
                       ELSE /\ bus' = Ptr(b)
                            /\ hasEvents' = e.hasEvents
                            /\ rxQueue' = << >>
                            /\ ret' = [Return(op, n.status, err, <<c>>)
                                          EXCEPT !.dll = l.pcanAPIHandle,
                                                 !.arg = handle, !.arg2 = baudRate,
                                                 !.bus = Ptr(b)]
    /\ UNCHANGED <<clockVars, pc, loc, loaders>>

\* LoadAPI(), whose result is dropped, then the native initialize call
InitializeWith(op, handle, baudRate, hwType, ioPort, interrupt) ==
    /\ pc = "idle"
    /\ \E a \in LoadAnswers, n \in NativeAnswers, ev \in EventAnswers :
        /\ CanAnswer(a)
        /\ LET l == LoadAPIStep(a)
               err == syscallErr(n.errno)
               c == Call("CAN_Initialize", "", {}, n.status, n.errno, l.apiLoaded)
               e == initializeRecvEvent(ev)
               b == [Handle |-> handle, Baudrate |-> baudRate, HWType |-> hwType,
                     IOPort |-> ioPort, Interrupt |-> interrupt,
                     recvEvent |-> e.recvEvent]
           IN
            /\ SetAPI(l)
            /\ IF ~l.pHandle["CAN_Initialize"]
               THEN /\ ret' = [Panic(op, << >>) EXCEPT !.dll = l.pcanAPIHandle,
                                                      !.arg = handle, !.arg2 = baudRate]
                    /\ UNCHANGED <<hasEvents, bus, initialized, rxQueue>>
               ELSE /\ initialized' = IF n.status = PCAN_ERROR_OK
                                      THEN initialized \cup {handle} ELSE initialized
                    /\ IF n.status # PCAN_ERROR_OK \/ err # NoErr
                       THEN /\ ret' = [Return(op, n.status, err, <<c>>)
                                          EXCEPT !.dll = l.pcanAPIHandle,
                                                 !.arg = handle, !.arg2 = baudRate]
                            /\ UNCHANGED <<hasEvents, bus, rxQueue>>
                       ELSE /\ bus' = Ptr(b)
                            /\ hasEvents' = e.hasEvents
                            /\ rxQueue' = << >>
                            /\ ret' = [Return(op, n.status, err, <<c>>)
                                          EXCEPT !.dll = l.pcanAPIHandle,
                                                 !.arg = handle, !.arg2 = baudRate,
                                                 !.bus = Ptr(b)]
    /\ UNCHANGED <<clockVars, pc, loc, loaders>>

\* Initializes a basic plugNplay PCAN Channel
InitializeBasic ==
    \E ch \in Channels :
        InitializeWith("InitializeBasic", ch[1], ch[2], PCAN_DEFAULT_HW_TYPE,
                       PCAN_DEFAULT_IO_PORT, PCAN_DEFAULT_INTERRUPT)

\* the call of the example program: InitializeBasic(PCAN_USBBUS1, PCAN_BAUD_500K)
OpenChannel ==
    InitializeWith("InitializeBasic", "PCAN_USBBUS1", "PCAN_BAUD_500K",
                   PCAN_DEFAULT_HW_TYPE, PCAN_DEFAULT_IO_PORT, PCAN_DEFAULT_INTERRUPT)

\* Initializes a advanced PCAN Channel
Initialize ==
    \E ch \in Channels :
        InitializeWith("Initialize", ch[1], ch[2], "PCAN_TYPE_ISA", "0x100", "3")

\* Initializes a FD capable PCAN Channel: no handle is ever returned
InitializeFD ==
    /\ pc = "idle"
    /\ \E handle \in Handles, a \in LoadAnswers, n \in NativeAnswers :
        /\ CanAnswer(a)
        /\ LET l == LoadAPIStep(a)
               err == syscallErr(n.errno)
               c == Call("CAN_InitializeFD", "", {}, n.status, n.errno, l.apiLoaded)
           IN
            /\ SetAPI(l)
            /\ IF ~l.pHandle["CAN_InitializeFD"]
               THEN /\ ret' = [Panic("InitializeFD", << >>) EXCEPT !.dll = l.pcanAPIHandle]
                    /\ UNCHANGED initialized
               ELSE /\ initialized' = IF n.status = PCAN_ERROR_OK
                                      THEN initialized \cup {handle} ELSE initialized
                    /\ ret' = [(IF n.status # PCAN_ERROR_OK \/ err # NoErr
                                THEN Return("InitializeFD", n.status, err, <<c>>)
                                ELSE Return("InitializeFD", PCAN_ERROR_UNKNOWN,
                                            LocalErr("not implemented"), <<c>>))
                               EXCEPT !.dll = l.pcanAPIHandle]
    /\ UNCHANGED <<hasEvents, bus, rxQueue, clockVars, pc, loc, loaders>>

(************************** forwarded calls ********************************)
\* a bus method that forwards to one entry point and returns its translated
\* result; closes: the driver closes the channel on success; clears: the
\* driver resets the queues on success
Forward(op, proc, closes, clears) ==
    /\ pc = "idle"
    /\ bus # NIL
    /\ IF ~pHandle[proc]
       THEN /\ ret' = Panic(op, << >>)
            /\ UNCHANGED <<initialized, rxQueue>>
       ELSE \E n \in NativeAnswers :
            /\ ret' = Return(op, n.status, syscallErr(n.errno),
                             <<Call(proc, "", {}, n.status, n.errno, apiLoaded)>>)
            /\ initialized' = IF closes /\ n.status = PCAN_ERROR_OK
                              THEN initialized \ {Deref(bus).Handle} ELSE initialized
            /\ rxQueue' = IF (closes \/ clears) /\ n.status = PCAN_ERROR_OK
                          THEN << >> ELSE rxQueue
    /\ UNCHANGED <<apiVars, hasEvents, bus, clockVars, pc, loc, loaders>>

Uninitialize == Forward("Uninitialize", "CAN_Uninitialize", TRUE, FALSE)
Reset        == Forward("Reset", "CAN_Reset", FALSE, TRUE)
GetStatus    == Forward("GetStatus", "CAN_GetStatus", FALSE, FALSE)
GetValue     == Forward("GetValue", "CAN_GetValue", FALSE, FALSE)
SetValue     == Forward("SetValue", "CAN_SetValue", FALSE, FALSE)

\* Transmits a CAN message; a driver in loopback mode queues it for reception
Write ==
    /\ pc = "idle"
    /\ bus # NIL
    /\ IF ~pHandle["CAN_Write"]
       THEN /\ ret' = Panic("Write", << >>)
            /\ UNCHANGED rxQueue
       ELSE \E n \in NativeAnswers, f \in Frames, echo \in BOOLEAN :
            /\ ret' = [Return("Write", n.status, syscallErr(n.errno),
                              <<Call("CAN_Write", "", {}, n.status, n.errno, apiLoaded)>>)
                          EXCEPT !.msg = Ptr(f)]
            /\ rxQueue' = IF echo /\ n.status = PCAN_ERROR_OK /\ ChannelOpen
                             /\ Len(rxQueue) < MaxQueue
                          THEN Append(rxQueue, Queued(f)) ELSE rxQueue
    /\ UNCHANGED <<apiVars, hasEvents, bus, initialized, clockVars, pc, loc, loaders>>

(******************************** Read *************************************)
\* a Read that keeps only the 11 bits of a standard identifier
Read_StandardID(n) ==
    IF n.status = PCAN_ERROR_QRCVEMPTY
    THEN [status |-> n.status, msg |-> NIL, timestamp |-> NIL,
          err |-> syscallErr(n.errno)]
    ELSE [status |-> n.status, msg |-> Ptr([n.msg EXCEPT !.ID = @ % 2048]),
          timestamp |-> Ptr(n.timestamp), err |-> syscallErr(n.errno)]

\* a Read that hands out the frame of a failed read without its timestamp
Read_NoTimestampOnFailure(n) ==
    IF n.status = PCAN_ERROR_QRCVEMPTY
    THEN [status |-> n.status, msg |-> NIL, timestamp |-> NIL,
          err |-> syscallErr(n.errno)]
    ELSE [status |-> n.status, msg |-> Ptr(n.msg),
          timestamp |-> IF n.status = PCAN_ERROR_OK THEN Ptr(n.timestamp) ELSE NIL,
          err |-> syscallErr(n.errno)]

\* TPCANBus.Read on the answer n of APIRead: nil pointers on queue-empty,
\* otherwise pointers to the output structures
Read(n) ==
    IF n.status = PCAN_ERROR_QRCVEMPTY
    THEN [status |-> n.status, msg |-> NIL, timestamp |-> NIL,
          err |-> syscallErr(n.errno)]
    ELSE [status |-> n.status, msg |-> Ptr(n.msg), timestamp |-> Ptr(n.timestamp),
          err |-> syscallErr(n.errno)]

ReadCallOf(n) == Call("CAN_Read", "", {}, n.status, n.errno, apiLoaded)

\* Reads a CAN message from the receive queue of a PCAN Channel
ReadOnce ==
    /\ pc = "idle"
    /\ bus # NIL
    /\ IF ~pHandle["CAN_Read"]
       THEN /\ ret' = Panic("Read", << >>)
            /\ UNCHANGED rxQueue
       ELSE \E n \in DriverReads :
            LET r == Read(n) IN
            /\ ret' = [Return("Read", r.status, r.err, <<ReadCallOf(n)>>)
                          EXCEPT !.msg = r.msg, !.timestamp = r.timestamp,
                                 !.reads = 1]
            /\ rxQueue' = AfterRead(n)
    /\ UNCHANGED <<apiVars, hasEvents, bus, initialized, clockVars, pc, loc, loaders>>

(******************************* ReadFD ************************************)
ZeroMsgFD == [ID |-> 0, MsgType |-> "PCAN_MESSAGE_STANDARD", DLC |-> 0,
              Data |-> [i \in 1..64 |-> 0]]
FrameFD == [ID |-> 291, MsgType |-> "PCAN_MESSAGE_FD", DLC |-> 15,
            Data |-> [i \in 1..64 |-> i]]
\* what CAN_ReadFD answers; a TPCANTimestampFD is one 64-bit count
DriverReadsFD ==
    {[status |-> PCAN_ERROR_OK, msg |-> FrameFD, timestamp |-> 1, errno |-> e]
        : e \in Errnos}
    \cup {[status |-> st, msg |-> ZeroMsgFD, timestamp |-> 0, errno |-> e]
        : st \in {PCAN_ERROR_QRCVEMPTY, PCAN_ERROR_BUSOFF}, e \in Errnos}

\* TPCANBusFD.ReadFD on the answer n of APIReadFD
ReadFD(n) ==
    IF n.status = PCAN_ERROR_QRCVEMPTY
    THEN [status |-> n.status, msg |-> NIL, timestamp |-> NIL,
          err |-> syscallErr(n.errno)]
    ELSE [status |-> n.status, msg |-> Ptr(n.msg), timestamp |-> Ptr(n.timestamp),
          err |-> syscallErr(n.errno)]

\* Reads a CAN message from the receive queue of a FD capable PCAN Channel;
\* the caller builds the TPCANBusFD itself, InitializeFD returning none
ReadFDOnce ==
    /\ pc = "idle"
    /\ IF ~pHandle["CAN_ReadFD"]
       THEN ret' = Panic("ReadFD", << >>)
       ELSE \E n \in DriverReadsFD :
            LET r == ReadFD(n) IN
            ret' = [Return("ReadFD", r.status, r.err,
                           <<Call("CAN_ReadFD", "", {}, n.status, n.errno, apiLoaded)>>)
                       EXCEPT !.msg = r.msg, !.timestamp = r.timestamp, !.reads = 1]
    /\ UNCHANGED <<apiVars, hasEvents, bus, driverVars, clockVars, pc, loc, loaders>>

(*************************** ReadWithTimeout *******************************)
Timeouts == {-1, 0, 1, 2}

\* what WaitForSingleObject answers
WaitAnswers ==
    IF hasEvents
    THEN {"WAIT_OBJECT_0", "WAIT_FAILED", "WAIT_TIMEOUT", "WAIT_ABANDONED"}
    ELSE {"none"}

\* a ReadWithTimeout that tests the deadline before its first read
ReadWithTimeoutCall_DeadlineFirst(timeout) ==
    LET t == IF timeout < 0 THEN INFINITE ELSE Ms(timeout) IN
    IF ~Gt64(Add64(now, t), now)
    THEN /\ ret' = [Return("ReadWithTimeout", PCAN_ERROR_QRCVEMPTY, NoErr, << >>)
                       EXCEPT !.arg = timeout]
         /\ pc' = "idle"
         /\ loc' = NoLoc
    ELSE /\ loc' = [NoLoc EXCEPT !.op = "ReadWithTimeout", !.arg = timeout,
                                 !.timeoutU32 = <<t[1] % Base, t[2]>>,
                                 !.startTime = now,
                                 !.endTime = Add64(now, t)]
         /\ pc' = "rwt_read"
         /\ ret' = NoRet

\* entry of ReadWithTimeout: a negative timeout sets timeout to infinity
ReadWithTimeoutCall(timeout) ==
    LET t == IF timeout < 0 THEN INFINITE ELSE Ms(timeout) IN
    /\ loc' = [NoLoc EXCEPT !.op = "ReadWithTimeout", !.arg = timeout,
                            !.timeoutU32 = <<t[1] % Base, t[2]>>,
                            !.startTime = now,
                            !.endTime = Add64(now, t)]
    /\ pc' = "rwt_read"
    /\ ret' = NoRet

RWT_Call ==
    /\ pc = "idle"
    /\ bus # NIL
    /\ \E timeout \in Timeouts : ReadWithTimeoutCall(timeout)
    /\ UNCHANGED <<apiVars, hasEvents, bus, driverVars, clockVars, loaders>>

\* a loop that reads on after a frame was delivered
LoopHead_KeepReading(r) == [kind |-> "read", r |-> r]

\* the loop condition: for msg == nil
LoopHead(r) ==
    IF r.msg = NIL THEN [kind |-> "read", r |-> r] ELSE [kind |-> "return", r |-> r]

\* a loop body that gives up at the first queue-empty read
ReadWithTimeoutStep_NoWait(r, w, nowv, endTime) ==
    IF r.status = PCAN_ERROR_QRCVEMPTY
    THEN [kind |-> "return", r |-> [r EXCEPT !.msg = NIL, !.timestamp = NIL]]
    ELSE LoopHead(r)

\* a loop body that waits on every read that delivered no valid frame
ReadWithTimeoutStep_WaitOnFailure(r, w, nowv, endTime) ==
    IF r.status # PCAN_ERROR_OK
    THEN IF Gt64(nowv, endTime)
         THEN [kind |-> "return", r |-> [r EXCEPT !.msg = NIL, !.timestamp = NIL]]
         ELSE [kind |-> "sleep", r |-> [r EXCEPT !.msg = NIL, !.timestamp = NIL]]
    ELSE LoopHead(r)

\* a loop body that sleeps on every queue-empty read and never tests the clock
ReadWithTimeoutStep_NoDeadline(r, w, nowv, endTime) ==
    IF r.status = PCAN_ERROR_QRCVEMPTY
    THEN [kind |-> "sleep", r |-> r]
    ELSE LoopHead(r)

\* one pass of the loop body on what Read returned (r), the answer of the
\* event wait (w), the clock and the deadline: read again, sleep, or return r
ReadWithTimeoutStep(r, w, nowv, endTime) ==
    IF r.status = PCAN_ERROR_QRCVEMPTY
    THEN IF hasEvents
         THEN CASE w = "WAIT_OBJECT_0" -> LoopHead(r)
                [] w = "WAIT_FAILED" ->
                    [kind |-> "return",
                     r |-> [r EXCEPT !.msg = NIL, !.timestamp = NIL,
                                     !.err = LocalErr("wait")]]
                [] w = "WAIT_TIMEOUT" ->
                    [kind |-> "return",
                     r |-> [r EXCEPT !.msg = NIL, !.timestamp = NIL, !.err = NoErr]]
                [] OTHER -> [kind |-> "return", r |-> [r EXCEPT !.err = NoErr]]
         ELSE IF Gt64(nowv, endTime)
              THEN [kind |-> "return", r |-> [r EXCEPT !.msg = NIL, !.timestamp = NIL]]
              ELSE [kind |-> "sleep", r |-> r]
    ELSE LoopHead(r)

ReturnRWT(r, last, reads) ==
    [Return("ReadWithTimeout", r.status, r.err, <<last>>)
        EXCEPT !.msg = r.msg, !.timestamp = r.timestamp, !.reads = reads,
               !.arg = loc.arg]

\* ret, msg, timestamp, err = p.Read() and the rest of the loop body
RWT_Read ==
    /\ pc = "rwt_read"
    /\ loc.reads < MaxReads
    /\ IF ~pHandle["CAN_Read"]
       THEN /\ ret' = [Panic("ReadWithTimeout", << >>) EXCEPT !.arg = loc.arg,
                                                              !.reads = loc.reads]
            /\ pc' = "idle"
            /\ loc' = NoLoc
            /\ UNCHANGED rxQueue
       ELSE \E n \in DriverReads, w \in WaitAnswers :
            LET s == ReadWithTimeoutStep(Read(n), w, now, loc.endTime)
                c == ReadCallOf(n)
            IN
            /\ rxQueue' = AfterRead(n)
            /\ IF s.kind = "return"
               THEN /\ ret' = ReturnRWT(s.r, c, loc.reads + 1)
                    /\ pc' = "idle"
                    /\ loc' = NoLoc
               ELSE /\ loc' = [loc EXCEPT !.reads = @ + 1, !.last = c, !.r = s.r]
                    /\ pc' = IF s.kind = "sleep" THEN "rwt_sleep" ELSE "rwt_read"
                    /\ UNCHANGED ret
    /\ UNCHANGED <<apiVars, hasEvents, bus, initialized, clockVars, loaders>>

\* time.Sleep(250 * time.Microsecond) is over; the loop condition is tested
RWT_Sleep ==
    /\ pc = "rwt_sleep"
    /\ IF LoopHead(loc.r).kind = "return"
       THEN /\ ret' = ReturnRWT(loc.r, loc.last, loc.reads)
            /\ pc' = "idle"
            /\ loc' = NoLoc
       ELSE /\ pc' = "rwt_read"
            /\ UNCHANGED <<loc, ret>>
    /\ UNCHANGED <<apiVars, hasEvents, bus, driverVars, clockVars, loaders>>

\* the example program opens its channel until it holds a bus handle
OpenOnce == bus = NIL /\ OpenChannel

\* a ReadWithTimeout with a timeout >= 0, begun while the clock is watched
RWT_CallBounded ==
    /\ pc = "idle"
    /\ bus # NIL
    /\ ~Gt64(now, Ms(MaxClock))
    /\ \E timeout \in Timeouts : timeout >= 0 /\ ReadWithTimeoutCall(timeout)
    /\ UNCHANGED <<apiVars, hasEvents, bus, driverVars, clockVars, loaders>>

\* the loop body on a driver that reports queue-empty to every read; the
\* reads are counted up to MaxReads and go on beyond
RWT_ReadEmpty ==
    /\ pc = "rwt_read"
    /\ rxQueue = << >>
    /\ IF ~pHandle["CAN_Read"]
       THEN /\ ret' = [Panic("ReadWithTimeout", << >>) EXCEPT !.arg = loc.arg,
                                                              !.reads = loc.reads]
            /\ pc' = "idle"
            /\ loc' = NoLoc
       ELSE \E n \in DriverReads, w \in WaitAnswers :
            LET s == ReadWithTimeoutStep(Read(n), w, now, loc.endTime)
                c == ReadCallOf(n)
                reads == IF loc.reads < MaxReads THEN loc.reads + 1 ELSE loc.reads
            IN
            /\ n.status = PCAN_ERROR_QRCVEMPTY
            /\ IF s.kind = "return"
               THEN /\ ret' = ReturnRWT(s.r, c, reads)
                    /\ pc' = "idle"
                    /\ loc' = NoLoc
               ELSE /\ loc' = [loc EXCEPT !.reads = reads, !.last = c, !.r = s.r]
                    /\ pc' = IF s.kind = "sleep" THEN "rwt_sleep" ELSE "rwt_read"
                    /\ UNCHANGED ret
    /\ UNCHANGED <<apiVars, hasEvents, bus, driverVars, clockVars, loaders>>

\* the clock advances by one millisecond during a call; it is watched until
\* it has passed the deadline of the call
ClockRuns ==
    /\ pc # "idle"
    /\ ~Gt64(now, loc.endTime)
    /\ now' = Add64(now, Ms(1))
    /\ UNCHANGED <<apiVars, hasEvents, bus, driverVars, ticks, pc, loc, ret, loaders>>

(**************************** ReadFullBuffer *******************************)
Limits == {-1, 0, 1, 2}

RFB_Call ==
    /\ pc = "idle"
    /\ bus # NIL
    /\ \E limit \in Limits :
        loc' = [NoLoc EXCEPT !.op = "ReadFullBuffer", !.arg = limit,
                             !.startTime = now]
    /\ pc' = "rfb_read"
    /\ ret' = NoRet
    /\ UNCHANGED <<apiVars, hasEvents, bus, driverVars, clockVars, loaders>>

\* a drain that stops one frame past its limit
ReadFullBufferStep_PastLimit(r, msgs, timestamps, limit) ==
    IF r.status = PCAN_ERROR_QRCVEMPTY
    THEN [done |-> TRUE, msgs |-> msgs, timestamps |-> timestamps, err |-> r.err]
    ELSE LET m == Append(msgs, Deref(r.msg))
             t == Append(timestamps, Deref(r.timestamp))
         IN [done |-> limit # 0 /\ Len(m) > limit,
             msgs |-> m, timestamps |-> t, err |-> r.err]

\* one pass of the loop body on what Read returned (r)
ReadFullBufferStep(r, msgs, timestamps, limit) ==
    IF r.status = PCAN_ERROR_QRCVEMPTY
    THEN [done |-> TRUE, msgs |-> msgs, timestamps |-> timestamps, err |-> r.err]
    ELSE LET m == Append(msgs, Deref(r.msg))
             t == Append(timestamps, Deref(r.timestamp))
         IN [done |-> limit # 0 /\ Len(m) >= limit,
             msgs |-> m, timestamps |-> t, err |-> r.err]

RFB_Read ==
    /\ pc = "rfb_read"
    /\ loc.reads < MaxDrain
    /\ IF ~pHandle["CAN_Read"]
       THEN /\ ret' = [Panic("ReadFullBuffer", << >>) EXCEPT !.arg = loc.arg,
                                                             !.reads = loc.reads]
            /\ pc' = "idle"
            /\ loc' = NoLoc
            /\ UNCHANGED rxQueue
       ELSE \E n \in DriverReads :
            LET s == ReadFullBufferStep(Read(n), loc.msgs, loc.timestamps, loc.arg)
                c == ReadCallOf(n)
            IN
            /\ rxQueue' = AfterRead(n)
            /\ IF s.done
               THEN /\ ret' = [Return("ReadFullBuffer", "", s.err, <<c>>)
                                  EXCEPT !.msgs = s.msgs, !.timestamps = s.timestamps,
                                         !.reads = loc.reads + 1, !.arg = loc.arg]
                    /\ pc' = "idle"
                    /\ loc' = NoLoc
               ELSE /\ loc' = [loc EXCEPT !.reads = @ + 1, !.last = c,
                                          !.msgs = s.msgs, !.timestamps = s.timestamps]
                    /\ UNCHANGED <<pc, ret>>
    /\ UNCHANGED <<apiVars, hasEvents, bus, initialized, clockVars, loaders>>

\* the first MaxDrain entries of a sequence: what is kept of a drain that
\* goes on beyond MaxDrain reads
Kept(q) == IF Len(q) > MaxDrain THEN SubSeq(q, 1, MaxDrain) ELSE q

\* the loop body of ReadFullBuffer, however many reads the drain has made;
\* the reads are counted, and the entries kept, up to MaxDrain
RFB_ReadOn ==
    /\ pc = "rfb_read"
    /\ IF ~pHandle["CAN_Read"]
       THEN /\ ret' = [Panic("ReadFullBuffer", << >>) EXCEPT !.arg = loc.arg,
                                                             !.reads = loc.reads]
            /\ pc' = "idle"
            /\ loc' = NoLoc
            /\ UNCHANGED rxQueue
       ELSE \E n \in DriverReads :
            LET s == ReadFullBufferStep(Read(n), loc.msgs, loc.timestamps, loc.arg)
                c == ReadCallOf(n)
                reads == IF loc.reads < MaxDrain THEN loc.reads + 1 ELSE loc.reads
            IN
            /\ rxQueue' = AfterRead(n)
            /\ IF s.done
               THEN /\ ret' = [Return("ReadFullBuffer", "", s.err, <<c>>)
                                  EXCEPT !.msgs = Kept(s.msgs),
                                         !.timestamps = Kept(s.timestamps),
                                         !.reads = reads, !.arg = loc.arg]
                    /\ pc' = "idle"
                    /\ loc' = NoLoc
               ELSE /\ loc' = [loc EXCEPT !.reads = reads, !.last = c,
                                          !.msgs = Kept(s.msgs),
                                          !.timestamps = Kept(s.timestamps)]
                    /\ UNCHANGED <<pc, ret>>
    /\ UNCHANGED <<apiVars, hasEvents, bus, initialized, clockVars, loaders>>

(******************************* tracing ***********************************)
\* the arguments a caller passes to StartTrace: the length of filePath and
\* maxFileSize in MB, on both sides of their limits
PathLengths == {MAX_LENGHT_STRING_BUFFER, MAX_LENGHT_STRING_BUFFER + 1}
FileSizes == {0, MAX_TRACE_FILE_SIZE_ACCEPTED, MAX_TRACE_FILE_SIZE_ACCEPTED + 1}

\* the set-value calls of StartTrace, in the order of the code
TraceParams == <<"PCAN_TRACE_CONFIGURE", "PCAN_TRACE_SIZE", "PCAN_TRACE_LOCATION",
                 "PCAN_TRACE_STATUS">>

\* the answer set aside for a call that is not made
Unasked == [status |-> PCAN_ERROR_OK, errno |-> 0]

\* cfg := TRACE_FILE_DATE | TRACE_FILE_TIME | TRACE_FILE_OVERWRITE, then
\* TRACE_FILE_SEGMENTED or TRACE_FILE_SINGLE
TraceCfg(maxFileSize) ==
    {"TRACE_FILE_DATE", "TRACE_FILE_TIME", "TRACE_FILE_OVERWRITE"}
    \cup (IF maxFileSize > 0 THEN {"TRACE_FILE_SEGMENTED"} ELSE {"TRACE_FILE_SINGLE"})

\* err != nil || state != PCAN_ERROR_OK
Failed(n) == syscallErr(n.errno) # NoErr \/ n.status # PCAN_ERROR_OK

\* a StartTrace that tests maxFileSize only after configuring the trace
StartTraceRun_SizeCheckedLate(filePathLen, maxFileSize, ans) ==
    LET c1 == Call("CAN_SetValue", TraceParams[1], TraceCfg(maxFileSize),
                   ans[1].status, ans[1].errno, apiLoaded)
    IN IF Failed(ans[1])
       THEN [status |-> ans[1].status, err |-> syscallErr(ans[1].errno),
             calls |-> <<c1>>]
       ELSE [status |-> PCAN_ERROR_UNKNOWN, err |-> LocalErr("validation"),
             calls |-> <<c1>>]

\* a StartTrace that switches the trace on whatever setting the location gave
StartTraceRun_IgnoresLocationFailure(filePathLen, maxFileSize, ans) ==
    LET c(i, cfg) == Call("CAN_SetValue", TraceParams[i], cfg, ans[i].status,
                          ans[i].errno, apiLoaded)
        out(i, calls) == [status |-> ans[i].status, err |-> syscallErr(ans[i].errno),
                          calls |-> calls]
        c1 == c(1, TraceCfg(maxFileSize))
        sized == IF maxFileSize > 0 THEN <<c1, c(2, {})>> ELSE <<c1>>
    IN
    IF maxFileSize > MAX_TRACE_FILE_SIZE_ACCEPTED
    THEN [status |-> PCAN_ERROR_UNKNOWN, err |-> LocalErr("validation"),
          calls |-> << >>]
    ELSE IF Failed(ans[1]) THEN out(1, <<c1>>)
    ELSE IF maxFileSize > 0 /\ Failed(ans[2]) THEN out(2, sized)
    ELSE IF filePathLen > MAX_LENGHT_STRING_BUFFER
    THEN [status |-> PCAN_ERROR_UNKNOWN, err |-> LocalErr("validation"),
          calls |-> sized]
    ELSE out(4, Append(Append(sized, c(3, {})), c(4, {"PCAN_PARAMETER_ON"})))

\* StartTrace on the answers ans[i] of the driver to the i-th set-value call
\* of TraceParams: the status and error returned and the native calls made
StartTraceRun(filePathLen, maxFileSize, ans) ==
    LET c(i, cfg) == Call("CAN_SetValue", TraceParams[i], cfg, ans[i].status,
                          ans[i].errno, apiLoaded)
        out(i, calls) == [status |-> ans[i].status, err |-> syscallErr(ans[i].errno),
                          calls |-> calls]
        c1 == c(1, TraceCfg(maxFileSize))
        c2 == c(2, {})
        c3 == c(3, {})
        c4 == c(4, {"PCAN_PARAMETER_ON"})
        sized == IF maxFileSize > 0 THEN <<c1, c2>> ELSE <<c1>>
    IN
    IF maxFileSize > MAX_TRACE_FILE_SIZE_ACCEPTED
    THEN [status |-> PCAN_ERROR_UNKNOWN, err |-> LocalErr("validation"),
          calls |-> << >>]
    ELSE IF Failed(ans[1]) THEN out(1, <<c1>>)
    ELSE IF maxFileSize > 0 /\ Failed(ans[2]) THEN out(2, <<c1, c2>>)
    ELSE IF filePathLen > MAX_LENGHT_STRING_BUFFER
    THEN [status |-> PCAN_ERROR_UNKNOWN, err |-> LocalErr("validation"),
          calls |-> sized]
    ELSE IF Failed(ans[3]) THEN out(3, Append(sized, c3))
    ELSE out(4, Append(Append(sized, c3), c4))

\* the answers of the driver to the calls StartTrace makes: a call is made
\* when the calls before it succeeded and the check before it passed
TraceAnswers(filePathLen, maxFileSize) ==
    LET after(asked) == IF asked THEN NativeAnswers ELSE {Unasked}
        ok(asked, n) == asked => ~Failed(n)
        a1 == maxFileSize <= MAX_TRACE_FILE_SIZE_ACCEPTED
        a2(n1) == a1 /\ ~Failed(n1) /\ maxFileSize > 0
        a3(n1, n2) == a1 /\ ~Failed(n1) /\ ok(a2(n1), n2)
                      /\ filePathLen <= MAX_LENGHT_STRING_BUFFER
        a4(n1, n2, n3) == a3(n1, n2) /\ ~Failed(n3)
    IN UNION { UNION { UNION { { <<n1, n2, n3, n4>> : n4 \in after(a4(n1, n2, n3)) }
                               : n3 \in after(a3(n1, n2)) }
                       : n2 \in after(a2(n1)) }
               : n1 \in after(a1) }

\* Starts recording a trace on given path with a max file size in MB
StartTrace ==
    /\ pc = "idle"
    /\ bus # NIL
    /\ \E filePathLen \in PathLengths, maxFileSize \in FileSizes :
        IF ~pHandle["CAN_SetValue"] /\ maxFileSize <= MAX_TRACE_FILE_SIZE_ACCEPTED
        THEN ret' = [Panic("StartTrace", << >>) EXCEPT !.arg = filePathLen,
                                                       !.arg2 = maxFileSize]
        ELSE \E ans \in TraceAnswers(filePathLen, maxFileSize) :
            LET t == StartTraceRun(filePathLen, maxFileSize, ans) IN
            ret' = [Return("StartTrace", t.status, t.err, t.calls)
                       EXCEPT !.arg = filePathLen, !.arg2 = maxFileSize]
    /\ UNCHANGED <<apiVars, hasEvents, bus, driverVars, clockVars, pc, loc, loaders>>

\* Stops recording currently running trace
StopTrace ==
    /\ pc = "idle"
    /\ bus # NIL
    /\ IF ~pHandle["CAN_SetValue"]
       THEN ret' = Panic("StopTrace", << >>)
       ELSE \E n \in NativeAnswers :
            ret' = Return("StopTrace", n.status, syscallErr(n.errno),
                          <<Call("CAN_SetValue", "PCAN_TRACE_STATUS",
                                 {"PCAN_PARAMETER_OFF"}, n.status, n.errno, apiLoaded)>>)
    /\ UNCHANGED <<apiVars, hasEvents, bus, driverVars, clockVars, pc, loc, loaders>>

(******************************* filtering *********************************)
\* SetFilter on the answers of the driver to CAN_FilterMessages (n1) and to the
\* confirming set-value call (n2): the status and error returned and the
\* native calls made
SetFilterRun(n1, n2) ==
    LET c1 == Call("CAN_FilterMessages", "", {}, n1.status, n1.errno, apiLoaded)
        c2 == Call("CAN_SetValue", "PCAN_MESSAGE_FILTER", {"PCAN_FILTER_CLOSE"},
                   n2.status, n2.errno, apiLoaded)
    IN IF n1.status # PCAN_ERROR_OK
       THEN [status |-> n1.status, err |-> syscallErr(n1.errno), calls |-> <<c1>>]
       ELSE [status |-> n2.status, err |-> syscallErr(n2.errno),
             calls |-> <<c1, c2>>]

\* Configures the reception filter
SetFilter ==
    /\ pc = "idle"
    /\ bus # NIL
    /\ IF ~pHandle["CAN_FilterMessages"]
       THEN ret' = Panic("SetFilter", << >>)
       ELSE \E n1 \in NativeAnswers :
            \E n2 \in (IF n1.status # PCAN_ERROR_OK THEN {Unasked} ELSE NativeAnswers) :
            IF n1.status = PCAN_ERROR_OK /\ ~pHandle["CAN_SetValue"]
            THEN ret' = Panic("SetFilter",
                              <<Call("CAN_FilterMessages", "", {}, n1.status,
                                     n1.errno, apiLoaded)>>)
            ELSE LET t == SetFilterRun(n1, n2) IN
                 ret' = Return("SetFilter", t.status, t.err, t.calls)
    /\ UNCHANGED <<apiVars, hasEvents, bus, driverVars, clockVars, pc, loc, loaders>>

\* Resets message filter set by SetFilter() function
ResetFilter ==
    /\ pc = "idle"
    /\ bus # NIL
    /\ IF ~pHandle["CAN_SetValue"]
       THEN ret' = Panic("ResetFilter", << >>)
       ELSE \E n \in NativeAnswers :
            ret' = Return("ResetFilter", n.status, syscallErr(n.errno),
                          <<Call("CAN_SetValue", "PCAN_MESSAGE_FILTER",
                                 {"PCAN_FILTER_OPEN"}, n.status, n.errno, apiLoaded)>>)
    /\ UNCHANGED <<apiVars, hasEvents, bus, driverVars, clockVars, pc, loc, loaders>>

(***************************** specifications ******************************)
\* the reading side: the example program's channel, frames arriving, the
\* clock, and the three ways to read
NextPoll ==
    \/ OpenChannel
    \/ UnloadAPI
    \/ FrameArrives
    \/ Tick
    \/ Jump
    \/ ReadOnce
    \/ ReadFDOnce
    \/ RWT_Call
    \/ RWT_Read
    \/ RWT_Sleep
    \/ RFB_Call
    \/ RFB_Read

SpecPoll == Init /\ [][NextPoll]_vars

\* the library's life cycle and the forwarded calls
NextLoader ==
    \/ LoadAPI
    \/ UnloadAPI
    \/ InitializeBasic
    \/ Initialize
    \/ InitializeFD
    \/ Uninitialize
    \/ Reset
    \/ GetStatus
    \/ GetValue
    \/ SetValue
    \/ ReadOnce

SpecLoader == Init /\ [][NextLoader]_vars

\* the example program's channel, its writes, and tracing
NextTrace ==
    \/ OpenChannel
    \/ UnloadAPI
    \/ Write
    \/ StartTrace
    \/ StopTrace

SpecTrace == Init /\ [][NextTrace]_vars

\* draining: bursts queued while the caller is idle, then read call by call
NextDrain ==
    \/ OpenChannel
    \/ BurstArrives
    \/ Tick
    \/ ReadOnce
    \/ RWT_Call
    \/ RWT_Read
    \/ RWT_Sleep
    \/ RFB_Call
    \/ RFB_Read

SpecDrain == Init /\ [][NextDrain]_vars

\* the example program on a driver in loopback mode: what it writes is all
\* that it receives
NextLoop ==
    \/ OpenChannel
    \/ Reset
    \/ Write
    \/ ReadOnce

SpecLoop == Init /\ [][NextLoop]_vars

\* waiting on a silent bus: the polling loop of ReadWithTimeout, the driver
\* reporting queue-empty to every read, and the clock
NextWait ==
    \/ OpenOnce
    \/ RWT_CallBounded
    \/ RWT_ReadEmpty
    \/ RWT_Sleep
    \/ ClockRuns

\* the goroutine is scheduled, time.Sleep returns, and the clock advances
SpecWait ==
    /\ Init /\ [][NextWait]_vars
    /\ WF_vars(RWT_ReadEmpty)
    /\ WF_vars(RWT_Sleep)
    /\ WF_vars(ClockRuns)

\* the example program's channel and its reception filter
NextFilter ==
    \/ OpenChannel
    \/ UnloadAPI
    \/ SetFilter
    \/ ResetFilter

SpecFilter == Init /\ [][NextFilter]_vars

\* a drain left to run: the frames are queued before the call, the driver
\* answers each read as it may, and the goroutine keeps being scheduled
NextSweep ==
    \/ OpenOnce
    \/ BurstArrives
    \/ RFB_Call
    \/ RFB_ReadOn

SpecSweep == Init /\ [][NextSweep]_vars /\ WF_vars(RFB_ReadOn)

\* goroutines in LoadAPI at the same time, and UnloadAPI
NextRace ==
    \/ LoadAPI_Step
    \/ UnloadAPI

SpecRace == Init /\ [][NextRace]_vars

Next == NextLoader \/ NextPoll \/ NextTrace \/ NextDrain \/ NextLoop \/ NextWait
        \/ NextFilter \/ NextSweep \/ NextRace

Spec == Init /\ [][Next]_vars

(******************************* properties ********************************)
InitializeOps == {"InitializeBasic", "Initialize", "InitializeFD"}
WrappedOps == {"Read", "Uninitialize", "Reset", "GetStatus", "GetValue", "SetValue"}

\* C1: a StartTrace whose path is longer than MAX_LENGHT_STRING_BUFFER returns
\* the validation error and has made no native set-value call.
C1_OversizedPathRejectedBeforeAnyCall ==
    ret.op = "StartTrace" /\ ~ret.panic /\ ret.arg > MAX_LENGHT_STRING_BUFFER
    => ret.err = LocalErr("validation") /\ ret.calls = << >>

\* C2: a wrapped call made on a bus handle while the library is unloaded
\* returns a linkage error to its caller; it does not dereference a nil entry
\* point and makes no native call.
C2_CallAfterUnloadReturnsLinkageError ==
    ret.op \in WrappedOps /\ ret.dll = "released"
    => ~ret.panic /\ ret.err = LocalErr("linkage") /\ ret.calls = << >>

\* C3: an Initialize, InitializeBasic or InitializeFD whose LoadAPI failed (the
\* library is not loaded when it ends) returns an error and has called no
\* native entry point.
C3_InitializeFailsWhenLoadFails ==
    ret.op \in InitializeOps /\ ~apiLoaded
    => ~ret.panic /\ ret.err # NoErr /\ ret.calls = << >>

\* C4: in ReadFullBuffer a read that reports a driver failure ends the
\* operation: the loop goes on only after a read that delivered a frame, the
\* failed read appends no frame, and the failure is returned as the error.
C4_FailureEndsReadFullBuffer ==
    /\ pc = "rfb_read" /\ loc.reads > 0 => loc.last.status = PCAN_ERROR_OK
    /\ \A i \in 1..Len(loc.msgs) : loc.msgs[i] # ZeroMsg
    /\ ret.op = "ReadFullBuffer" /\ ~ret.panic
       => /\ \A i \in 1..Len(ret.msgs) : ret.msgs[i] # ZeroMsg
          /\ ret.calls[1].status = PCAN_ERROR_BUSOFF => ret.err # NoErr

\* C5: a ReadWithTimeout with a negative timeout never returns the empty
\* outcome, however far the clock has advanced.
C5_NegativeTimeoutNeverEmpty ==
    ~(ret.op = "ReadWithTimeout" /\ ~ret.panic /\ ret.arg < 0
      /\ ret.status = PCAN_ERROR_QRCVEMPTY)

\* C6: a ReadWithTimeout with timeout >= 0 that ends at its deadline, every
\* read having reported queue-empty, returns the queue-empty status, a nil
\* frame, a nil timestamp and no error.
C6_DeadlineReturnsEmptyWithoutError ==
    ret.op = "ReadWithTimeout" /\ ~ret.panic /\ ret.arg >= 0
    /\ ret.status = PCAN_ERROR_QRCVEMPTY
    => ret.msg = NIL /\ ret.timestamp = NIL /\ ret.err = NoErr

\* C7: a read inside ReadWithTimeout whose status is neither OK nor
\* queue-empty ends the call with that status and its error: the loop sleeps
\* or reads again only after a queue-empty read, and the call that ended on
\* such a read returns the read's status and translated error.
C7_FailureEndsReadWithTimeout ==
    /\ pc \in {"rwt_read", "rwt_sleep"} /\ loc.reads > 0
       => loc.last.status = PCAN_ERROR_QRCVEMPTY
    /\ ret.op = "ReadWithTimeout" /\ ~ret.panic
       /\ ret.calls[1].status \notin {PCAN_ERROR_OK, PCAN_ERROR_QRCVEMPTY}
       => /\ ret.status = ret.calls[1].status
          /\ ret.err = syscallErr(ret.calls[1].errno)

\* a ReadWithTimeout that ended on a failed read after an earlier empty one,
\* and returned the failure's platform error
C7_Witness ==
    /\ ret.op = "ReadWithTimeout" /\ ~ret.panic
    /\ ret.status = PCAN_ERROR_BUSOFF
    /\ ret.reads >= 2
    /\ ret.err = ErrnoErr(5)

\* C8: whenever Read or ReadWithTimeout returns a non-nil frame, the status
\* it returns is OK.
C8_FrameImpliesOK ==
    ret.op \in {"Read", "ReadWithTimeout"} /\ ret.msg # NIL
    => ret.status = PCAN_ERROR_OK

\* C9: Read, ReadWithTimeout and ReadFD return a nil frame exactly when they
\* return a nil timestamp; the two sequences of ReadFullBuffer are equally
\* long and the i-th timestamp is the one delivered with the i-th frame.
C9_FrameAndTimestampPaired ==
    /\ ret.op \in {"Read", "ReadWithTimeout", "ReadFD"}
       => (ret.msg = NIL <=> ret.timestamp = NIL)
    /\ Len(loc.msgs) = Len(loc.timestamps)
    /\ Len(ret.msgs) = Len(ret.timestamps)
    /\ \A i \in 1..Len(ret.msgs) : ret.timestamps[i] = StampOf(ret.msgs[i])

\* a ReadFullBuffer that returned two frames, a received one among them
C9_Witness ==
    /\ ret.op = "ReadFullBuffer"
    /\ Len(ret.msgs) = 2
    /\ ret.msgs[1] \in Frames
    /\ ret.timestamps[1] = StampOf(ret.msgs[1])

\* C10: a ReadWithTimeout with timeout 0 that returns has made at least one
\* native read.
C10_ZeroTimeoutReadsOnce ==
    ret.op = "ReadWithTimeout" /\ ~ret.panic /\ ret.arg = 0
    => ret.reads >= 1 /\ Len(ret.calls) = 1

\* a ReadWithTimeout(0) that found the queue empty and gave up after its read
C10_Witness ==
    /\ ret.op = "ReadWithTimeout" /\ ~ret.panic /\ ret.arg = 0
    /\ ret.status = PCAN_ERROR_QRCVEMPTY
    /\ ret.msg = NIL
    /\ ret.reads = 1

\* C11: a ReadWithTimeout with timeout t >= 0 returns the empty outcome only
\* when the millisecond clock is at least t past its value at the start of
\* the call.
C11_EmptyNotBeforeTimeout ==
    [][(pc \in {"rwt_read", "rwt_sleep"} /\ pc' = "idle" /\ ~ret'.panic
        /\ loc.arg >= 0 /\ ret'.status = PCAN_ERROR_QRCVEMPTY)
       => ~Gt64(Add64(loc.startTime, Ms(loc.arg)), now')]_vars

\* a ReadWithTimeout(1) that slept on an empty queue and then gave up
C11_Witness ==
    /\ ret.op = "ReadWithTimeout" /\ ~ret.panic /\ ret.arg = 1
    /\ ret.status = PCAN_ERROR_QRCVEMPTY
    /\ ret.reads = 2
    /\ Gt64(now, Ms(1))

\* C13: ReadWithTimeout stops at the first frame: a read that removes a
\* frame ends the call, so no call removes a second one; the call returns
\* the oldest queued frame and leaves the others queued in order.
C13_StopsAtFirstFrame ==
    [][(pc \in {"rwt_read", "rwt_sleep"} /\ rxQueue' # rxQueue)
       => /\ rxQueue' = Tail(rxQueue)
          /\ pc' = "idle"
          /\ ret'.op = "ReadWithTimeout" /\ ret'.status = PCAN_ERROR_OK
          /\ ret'.msg = Ptr(Head(rxQueue).msg)]_vars

\* a ReadWithTimeout that returned the first frame of a burst of three
C13_Witness ==
    /\ pc = "idle"
    /\ ret.op = "ReadWithTimeout" /\ ret.status = PCAN_ERROR_OK
    /\ ret.msg # NIL
    /\ Len(rxQueue) = 2

\* the frames of a queue, in order
MsgsOf(q) == [i \in 1..Len(q) |-> q[i].msg]
Min(a, b) == IF a < b THEN a ELSE b

\* C14: a ReadFullBuffer(limit), limit >= 0, none of whose reads failed:
\* at every read the frames collected so far followed by the frames still
\* queued are the frames queued when the call began, in arrival order; the
\* call returns when it holds min(limit, M) of these M frames (all M when
\* limit = 0, ending on the queue-empty read) and leaves the others queued.
C14_DrainReturnsPrefix ==
    [][LET got == IF pc' = "idle" THEN ret'.msgs ELSE loc'.msgs
           M == Len(got) + Len(rxQueue')
       IN (pc = "rfb_read" /\ loc.arg >= 0
           /\ (pc' = "idle" => ~ret'.panic)
           /\ \A i \in 1..Len(got) : got[i] # ZeroMsg)
          => /\ got \o MsgsOf(rxQueue') = loc.msgs \o MsgsOf(rxQueue)
             /\ pc' = "idle" =>
                 /\ Len(got) = IF loc.arg = 0 THEN M ELSE Min(loc.arg, M)
                 /\ loc.arg = 0 => ret'.calls[1].status = PCAN_ERROR_QRCVEMPTY
             /\ pc' # "idle" => loc.arg = 0 \/ Len(got) < loc.arg]_vars

\* a ReadFullBuffer(2) that returned two frames of a burst of three
C14_Witness ==
    /\ pc = "idle"
    /\ ret.op = "ReadFullBuffer" /\ ret.arg = 2
    /\ Len(ret.msgs) = 2
    /\ \A i \in 1..2 : ret.msgs[i] \in Frames
    /\ Len(rxQueue) = 1

\* C15: a LoadAPI called while the library is loaded returns nil, loads no
\* module, resolves no entry point and changes no process-wide state.
C15_LoadAPIIdempotent ==
    [][(apiLoaded /\ ret'.op = "LoadAPI" /\ ret' # ret)
       => /\ ret'.err = NoErr /\ ~ret'.panic
          /\ ret'.arg = 0
          /\ UNCHANGED <<apiLoaded, pcanAPIHandle, pHandle, modules, hasEvents>>
          /\ UNCHANGED <<bus, initialized, rxQueue>>]_vars

\* a LoadAPI that found the library loaded: it succeeded and loaded nothing
C15_Witness ==
    /\ ret.op = "LoadAPI" /\ ret.err = NoErr /\ ret.arg = 0
    /\ apiLoaded /\ modules = 1

\* C17: syscallErr returns nil exactly for the platform codes 0 and
\* ERROR_INSUFFICIENT_BUFFER and an error for every other code; a forwarded
\* call returns the driver's status unchanged next to that translation.
C17_ErrorTranslation ==
    /\ \A e \in 0..255 :
        syscallErr(e) = NoErr <=> e \in {0, ERROR_INSUFFICIENT_BUFFER}
    /\ ret.op \in WrappedOps /\ ~ret.panic
       => /\ ret.status = ret.calls[1].status
          /\ ret.err = NoErr <=> ret.calls[1].errno \in {0, ERROR_INSUFFICIENT_BUFFER}
          /\ ret.err # NoErr => ret.err = ErrnoErr(ret.calls[1].errno)

\* a forwarded call that failed in the driver with the insufficient-buffer
\* code set: the status comes back, the platform code is suppressed
C17_Witness ==
    /\ ret.op \in WrappedOps /\ ~ret.panic
    /\ ret.calls[1].errno = ERROR_INSUFFICIENT_BUFFER
    /\ ret.status = PCAN_ERROR_BUSOFF
    /\ ret.err = NoErr

\* C18: a StartTrace called with maxFileSize greater than
\* MAX_TRACE_FILE_SIZE_ACCEPTED returns the local validation error and has
\* made no native call, whatever the state of the library.
C18_OversizedTraceFileRejected ==
    ret.op = "StartTrace" /\ ret.arg2 > MAX_TRACE_FILE_SIZE_ACCEPTED
    => /\ ~ret.panic
       /\ ret.status = PCAN_ERROR_UNKNOWN
       /\ ret.err = LocalErr("validation")
       /\ ret.calls = << >>

\* a StartTrace with a file size one past the limit that was rejected
C18_Witness ==
    /\ ret.op = "StartTrace"
    /\ ret.arg2 = MAX_TRACE_FILE_SIZE_ACCEPTED + 1
    /\ ret.err = LocalErr("validation")
    /\ apiLoaded

\* C19: apiLoaded is true only while all 14 entry-point references are
\* non-nil, and right after an UnloadAPI apiLoaded is false and every
\* entry-point reference is nil.
C19_LoadedFlagMeansAllResolved ==
    /\ apiLoaded => \A p \in ProcNames : pHandle[p]
    /\ Cardinality(ProcNames) = 14
    /\ ret.op = "UnloadAPI" => ~apiLoaded /\ \A p \in ProcNames : ~pHandle[p]

\* an UnloadAPI that released a library whose LoadAPI had succeeded
C19_Witness ==
    /\ ret.op = "UnloadAPI" /\ ~ret.panic /\ ret.err = NoErr
    /\ pcanAPIHandle = "released"
    /\ ~apiLoaded
    /\ modules = 0

\* C20: round trip over a loopback driver: the frame the driver queues for a
\* Write is the frame passed to Write, and the frame a Read returns has the
\* identifier, length and payload of the frame the driver delivered, so a
\* frame written and read back comes back unaltered.
C20_WriteReadRoundTrip ==
    [][/\ (ret'.op = "Write" /\ rxQueue' # rxQueue)
          => rxQueue' = Append(rxQueue, Queued(Deref(ret'.msg)))
       /\ (ret'.op = "Read" /\ rxQueue' # rxQueue)
          => /\ ret'.status = PCAN_ERROR_OK
             /\ rxQueue' = Tail(rxQueue)
             /\ Deref(ret'.msg).ID = Head(rxQueue).msg.ID
             /\ Deref(ret'.msg).DLC = Head(rxQueue).msg.DLC
             /\ Deref(ret'.msg).Data = Head(rxQueue).msg.Data
             /\ Deref(ret'.msg) \in Frames]_vars

\* a Read that returned the frame 0x123, length 8, payload 1..8 written before
C20_Witness ==
    /\ ret.op = "Read" /\ ret.status = PCAN_ERROR_OK
    /\ ret.msg # NIL
    /\ Deref(ret.msg).ID = 291
    /\ Deref(ret.msg).DLC = 8
    /\ Deref(ret.msg).Data = <<1, 2, 3, 4, 5, 6, 7, 8>>

\* C21: on a driver that reports queue-empty to every read and with a clock
\* that keeps advancing, a ReadWithTimeout with timeout t >= 0 eventually
\* returns the empty outcome; the deadline is tested on every pass of the
\* loop, so the first queue-empty read made after the clock has passed
\* start + t ends the call.
C21_EmptyReadEventuallyReturns ==
    /\ (pc \in {"rwt_read", "rwt_sleep"} /\ loc.arg >= 0)
       ~> (pc = "idle" /\ ret.op = "ReadWithTimeout" /\ ~ret.panic
           /\ ret.status = PCAN_ERROR_QRCVEMPTY /\ ret.msg = NIL)
    /\ [][(pc = "rwt_read" /\ Gt64(now, Add64(loc.startTime, Ms(loc.arg)))
           /\ <<pc, loc, ret>>' # <<pc, loc, ret>>)
          => pc' = "idle" /\ ret'.status = PCAN_ERROR_QRCVEMPTY]_vars

\* a ReadWithTimeout(2) that polled the silent bus for more than MaxReads
\* reads and returned empty once the clock had passed its deadline
C21_Witness ==
    /\ pc = "idle"
    /\ ret.op = "ReadWithTimeout" /\ ~ret.panic /\ ret.arg = 2
    /\ ret.status = PCAN_ERROR_QRCVEMPTY /\ ret.msg = NIL
    /\ ret.reads = MaxReads
    /\ Gt64(now, Ms(2))

\* the set-value calls a StartTrace with this maxFileSize makes when none fails
TraceOrder(maxFileSize) ==
    IF maxFileSize > 0
    THEN TraceParams
    ELSE <<TraceParams[1], TraceParams[3], TraceParams[4]>>

\* C22: StartTrace makes its native calls in the order trace-configure,
\* trace-size (only when maxFileSize > 0), trace-location, trace-status ON;
\* every call before the last one made succeeded, a failed call is the last
\* one and its status and error are returned, so trace-status ON is sent only
\* after every earlier step succeeded; the configure value carries the
\* segmented flag exactly when maxFileSize > 0 and the single-file flag
\* otherwise.
C22_TraceStepsInOrder ==
    ret.op = "StartTrace" /\ ~ret.panic
    => LET calls == ret.calls
           order == TraceOrder(ret.arg2)
           k == Len(calls)
       IN /\ k <= Len(order)
          /\ \A i \in 1..k :
                /\ calls[i].proc = "CAN_SetValue"
                /\ calls[i].param = order[i]
                /\ i < k => ~Failed(calls[i])
          /\ k > 0 /\ (Failed(calls[k]) \/ k = Len(order))
             => /\ ret.status = calls[k].status
                /\ ret.err = syscallErr(calls[k].errno)
          /\ k > 0 /\ ~Failed(calls[k]) /\ k < Len(order)
             => /\ ret.arg > MAX_LENGHT_STRING_BUFFER
                /\ ret.err = LocalErr("validation")
                /\ calls[k].param # "PCAN_TRACE_LOCATION"
          /\ \A i \in 1..k :
                calls[i].param = "PCAN_TRACE_STATUS"
                => calls[i].cfg = {"PCAN_PARAMETER_ON"} /\ i = Len(order)
          /\ k > 0
             => /\ "TRACE_FILE_SEGMENTED" \in calls[1].cfg <=> ret.arg2 > 0
                /\ "TRACE_FILE_SINGLE" \in calls[1].cfg <=> ~(ret.arg2 > 0)
                /\ {"TRACE_FILE_DATE", "TRACE_FILE_TIME", "TRACE_FILE_OVERWRITE"}
                       \subseteq calls[1].cfg

\* a StartTrace with a size limit whose four calls succeeded, trace-status ON
\* being the last of them
C22_Witness ==
    /\ ret.op = "StartTrace" /\ ~ret.panic
    /\ ret.arg2 = MAX_TRACE_FILE_SIZE_ACCEPTED
    /\ Len(ret.calls) = 4
    /\ ret.calls[2].param = "PCAN_TRACE_SIZE"
    /\ ret.calls[4].param = "PCAN_TRACE_STATUS"
    /\ "TRACE_FILE_SEGMENTED" \in ret.calls[1].cfg
    /\ ret.status = PCAN_ERROR_OK /\ ret.err = NoErr

\* C23: a SetFilter whose filter-messages call returned a status other than
\* OK or a platform error returns that status and error and makes no
\* confirming set-value call; the confirming call follows only a filter call
\* that succeeded without error.
C23_FilterFailureSurfaced ==
    ret.op = "SetFilter" /\ ~ret.panic
    => /\ Failed(ret.calls[1])
          => /\ Len(ret.calls) = 1
             /\ ret.status = ret.calls[1].status
             /\ ret.err = syscallErr(ret.calls[1].errno)
       /\ Len(ret.calls) = 2 => ~Failed(ret.calls[1])

\* C24: InitializeBasic and Initialize return a bus handle exactly when the
\* native initialize call returned PCAN_ERROR_OK and no error; the handle
\* carries the channel and the baud rate passed in and the given (or, for
\* InitializeBasic, the default) hardware type, I/O port and interrupt; the
\* status and error returned are those of the native call.
C24_HandleIffInitialized ==
    ret.op \in {"InitializeBasic", "Initialize"} /\ ~ret.panic
    => /\ Len(ret.calls) = 1
       /\ ret.calls[1].proc = "CAN_Initialize"
       /\ ret.bus # NIL <=> /\ ret.calls[1].status = PCAN_ERROR_OK
                            /\ syscallErr(ret.calls[1].errno) = NoErr
       /\ ret.status = ret.calls[1].status
       /\ ret.err = syscallErr(ret.calls[1].errno)
       /\ ret.bus # NIL
          => /\ Deref(ret.bus).Handle = ret.arg
             /\ Deref(ret.bus).Baudrate = ret.arg2
             /\ ret.op = "InitializeBasic"
                => /\ Deref(ret.bus).HWType = PCAN_DEFAULT_HW_TYPE
                   /\ Deref(ret.bus).IOPort = PCAN_DEFAULT_IO_PORT
                   /\ Deref(ret.bus).Interrupt = PCAN_DEFAULT_INTERRUPT
             /\ ret.op = "Initialize"
                => /\ Deref(ret.bus).HWType = "PCAN_TYPE_ISA"
                   /\ Deref(ret.bus).IOPort = "0x100"
                   /\ Deref(ret.bus).Interrupt = "3"
             /\ bus = ret.bus
             /\ ret.arg \in initialized

\* an Initialize of the second channel that succeeded, the driver having set
\* the insufficient-buffer code
C24_Witness ==
    /\ ret.op = "Initialize" /\ ~ret.panic
    /\ ret.arg = "PCAN_USBBUS2" /\ ret.arg2 = "PCAN_BAUD_250K"
    /\ ret.calls[1].errno = ERROR_INSUFFICIENT_BUFFER
    /\ ret.bus # NIL
    /\ Deref(ret.bus).Handle = "PCAN_USBBUS2"
    /\ Deref(ret.bus).Baudrate = "PCAN_BAUD_250K"

\* C25: hasEvents is false in every reachable state, so no bus handle holds
\* a receive event (recvEvent is 0), no wait on a receive event is made or
\* answered, and a pass of the ReadWithTimeout loop that does not end the
\* call goes to the sleep of the polling branch.
C25_EventsNeverAvailable ==
    /\ [](/\ hasEvents = FALSE
          /\ bus # NIL => Deref(bus).recvEvent = 0
          /\ ret.bus # NIL => Deref(ret.bus).recvEvent = 0
          /\ WaitAnswers = {"none"}
          /\ EventAnswers = {[created |-> FALSE, setOk |-> FALSE]}
          /\ ret.op = "ReadWithTimeout" => ret.err # LocalErr("wait"))
    /\ [][(pc = "rwt_read" /\ pc' # "idle" /\ loc' # loc)
          => pc' = "rwt_sleep" /\ loc'.last.status = PCAN_ERROR_QRCVEMPTY]_vars

\* a ReadWithTimeout on an opened bus that found the queue empty and sleeps
C25_Witness ==
    /\ pc = "rwt_sleep"
    /\ bus # NIL /\ Deref(bus).recvEvent = 0
    /\ ~hasEvents
    /\ loc.last.status = PCAN_ERROR_QRCVEMPTY
    /\ loc.reads = 1

\* C26: a ReadFullBuffer that has begun returns, whatever its limit and
\* whatever the driver answers to its reads, no frame being queued while it
\* runs.
C26_ReadFullBufferTerminates ==
    pc = "rfb_read" ~> pc = "idle"

\* C27: an UnloadAPI returns, whatever the state of the library when it is
\* called (never loaded, load failed, loaded, unloaded): it does not
\* dereference a missing library handle, and it leaves apiLoaded false and
\* every entry-point reference nil.
C27_UnloadInAnyState ==
    ret.op = "UnloadAPI"
    => ~ret.panic /\ ~apiLoaded /\ \A p \in ProcNames : ~pHandle[p]

\* C28: a LoadAPI that returns an error leaves the process-wide loader state
\* as it was: the module count, the library handle, the entry-point
\* references and the flag are unchanged by the call.
C28_FailedLoadLeavesStateAlone ==
    [][(ret'.op = "LoadAPI" /\ ret'.err # NoErr)
       => UNCHANGED <<apiLoaded, pHandle, modules>>
          /\ (pcanAPIHandle' = "loaded" => pcanAPIHandle = "loaded")]_vars

\* C29: an InitializeFD returns no bus handle and leaves no channel
\* initialised in the driver that was not initialised before the call.
C29_InitializeFDLeavesNoChannelOpen ==
    [][ret'.op = "InitializeFD"
       => ret'.bus = NIL /\ initialized' \subseteq initialized]_vars

\* C30: with goroutines calling LoadAPI at the same time the process holds
\* at most one reference to the driver module, and apiLoaded is true only
\* while every entry-point reference is resolved.
C30_ConcurrentLoadLoadsOnce ==
    /\ modules <= 1
    /\ apiLoaded => AllResolved(pHandle)

====
